---- MODULE Spec2Model ----
(***************************************************************************)
(* Model of the random-picker plugin's core: RandomSource.getRandomPick    *)
(* and RandomPickTemplate.generate (src/main.ts), together with the        *)
(* single-source pick command of the earlier revision                      *)
(* (src/unnamed/part_000).                                                  *)
(*                                                                         *)
(* A JavaScript string is modelled as a sequence of one-character strings; *)
(* JavaScript positions are 0-based, so position p of a string s is the    *)
(* element s[p + 1] of the sequence.                                       *)
(***************************************************************************)
EXTENDS Integers, Sequences, FiniteSets, TLC

VARIABLES
    template,          \* RandomPickTemplate.template, the body being expanded
    files,             \* basenames of the vault files under settings.listsFolder
    vault,             \* current content of each of those files
    sources,           \* keys of the Map handed to generate (the catalog)
    pc,                \* position of the generate call
    output,            \* generate's local `output`
    lastVariable,      \* generate's local `lastVariable`
    nextVariable,      \* generate's local `nextVariable` of the current iteration
    varName,           \* generate's local `varName` of the current iteration
    log,               \* what the running generate call wrote with console.log
    fault,             \* the reason generate's promise was rejected with, or "none"
    picks,             \* history: the picks the running generate call has drawn, in order
    lastRead,          \* history: the text the latest cachedRead of each file returned
    stripListSymbols,  \* settings.stripListSymbols
    pickPc,            \* position of the single-source pick command
    pickFile,          \* the file of the RandomSource the command was given
    pickStrip,         \* the stripListSymbols argument of the command's getRandomPick call
    picked,            \* outcome of the command's getRandomPick promise
    modal,             \* RandomPickPreviewModal: "closed", "open" or "submitted"
    gens,              \* the generate calls the preview modal has started, in order
    nameEl,            \* the text of the modal's paragraph nameEl
    submitted          \* the texts handed to the modal's onSubmit

genVars  == <<pc, output, lastVariable, nextVariable, varName, log, fault>>
histVars == <<picks, lastRead>>
pickVars == <<stripListSymbols, pickPc, pickFile, pickStrip, picked>>
previewVars == <<modal, gens, nameEl, submitted>>
vars == <<template, files, vault, sources, pc, output, lastVariable,
          nextVariable, varName, log, fault, picks, lastRead,
          stripListSymbols, pickPc, pickFile, pickStrip, picked,
          modal, gens, nameEl, submitted>>

-----------------------------------------------------------------------------
(* Bounds of the model.                                                    *)

\* A template body is the concatenation of at most MaxSegs segments.
MaxSegs == 3

\* A file text of the single-source specification has at most MaxTextLen characters.
MaxTextLen == 4

\* The preview modal starts at most MaxGens generate calls: the one of
\* onOpen and the Regenerate clicks.
MaxGens == 2

\* A generate call is followed for at most MaxLog console.log lines: only a
\* call that never leaves its loop writes that many.
MaxLog == MaxSegs + 2

-----------------------------------------------------------------------------
(* JavaScript string primitives.                                           *)

Min(a, b) == IF a < b THEN a ELSE b
Max(a, b) == IF a > b THEN a ELSE b

\* String.prototype.trim removes these from both ends.
WhiteSpace == {" ", "\t", "\n"}

\* s.startsWith(p)
startsWith(s, p) ==
    /\ Len(p) <= Len(s)
    /\ \A k \in 1..Len(p) : s[k] = p[k]

\* s.startsWith(p, at): p occurs in s at the 0-based position at
occursAt(s, p, at) ==
    /\ at + Len(p) <= Len(s)
    /\ \A k \in 1..Len(p) : s[at + k] = p[k]

\* s.indexOf(p, from): the position is clamped to 0..s.length, the result is
\* the first position >= from where p occurs, or -1
indexOf(s, p, from) ==
    LET start == Min(Max(from, 0), Len(s))
        hits  == { i \in start..Len(s) : occursAt(s, p, i) }
    IN  IF hits = {} THEN -1
        ELSE CHOOSE i \in hits : \A j \in hits : i <= j

\* a relative index of slice: negative counts from the end, then clamped
relIndex(s, i) == IF i < 0 THEN Max(Len(s) + i, 0) ELSE Min(i, Len(s))

\* s.slice(from, to)
slice(s, from, to) ==
    LET a == relIndex(s, from)
        b == relIndex(s, to)
    IN  IF a >= b THEN <<>> ELSE [k \in 1..(b - a) |-> s[a + k]]

\* s.slice(from)
sliceFrom(s, from) == slice(s, from, Len(s))

RECURSIVE trimStart(_)
trimStart(s) ==
    IF s /= <<>> /\ Head(s) \in WhiteSpace THEN trimStart(Tail(s)) ELSE s

RECURSIVE trimEnd(_)
trimEnd(s) ==
    IF s /= <<>> /\ s[Len(s)] \in WhiteSpace
    THEN trimEnd(SubSeq(s, 1, Len(s) - 1))
    ELSE s

\* s.trim()
trim(s) == trimEnd(trimStart(s))

\* text.split("\n"): always at least one piece, the empty text gives [""]
RECURSIVE split(_)
split(text) ==
    LET nl == indexOf(text, <<"\n">>, 0)
    IN  IF nl = -1 THEN <<text>>
        ELSE <<slice(text, 0, nl)>> \o split(sliceFrom(text, nl + 1))

\* the filter predicate of getRandomPick: l.trim().length > 0
nonBlank(l) == Len(trim(l)) > 0

-----------------------------------------------------------------------------
(* RandomSource.getRandomPick.                                             *)

\* text.split("\n").filter((l) => l.trim().length > 0)
items(text) == SelectSeq(split(text), nonBlank)

\* Mutant of randomIndex: the product is taken with n - 1, so the last item
\* is never drawn.
randomIndexShort(n) == 0..Max(n - 2, 0)

\* Math.floor(Math.random() * n) with Math.random() in [0, 1): 0 when n = 0
randomIndex(n) == 0..Max(n - 1, 0)

Value(v)  == [fault |-> "none", value |-> v]
Thrown(e) == [fault |-> e, value |-> <<>>]

\* Mutant of getRandomPick: only the "* " bullet is removed.
getRandomPickStarOnly(text, strip, idx) ==
    LET its == items(text)
    IN  IF idx >= Len(its) THEN Thrown("TypeError")
        ELSE LET item == trim(its[idx + 1])
             IN  IF strip /\ startsWith(item, <<"*", " ">>)
                 THEN Value(sliceFrom(item, 2))
                 ELSE Value(item)

\* The then-callback of getRandomPick on the text read, with idx the index
\* drawn.  items[idx] is undefined when idx is outside the array, and
\* undefined.trim() throws a TypeError, which rejects the promise.
getRandomPick(text, strip, idx) ==
    LET its == items(text)
    IN  IF idx >= Len(its) THEN Thrown("TypeError")
        ELSE LET item == trim(its[idx + 1])
             IN  IF strip /\ (startsWith(item, <<"*", " ">>) \/ startsWith(item, <<"-", " ">>))
                 THEN Value(sliceFrom(item, 2))
                 ELSE Value(item)

\* The outcomes getRandomPick(strip) can settle with on the text read, one
\* for each index Math.random can give.
pickOutcomes(text, strip) ==
    { getRandomPick(text, strip, idx) : idx \in randomIndex(Len(items(text))) }

\* Mutant of cachedRead: the text of the first read is kept and returned again.
cachedReadStale(f) == IF lastRead[f] /= <<>> THEN lastRead[f][1] ELSE vault[f]

\* this.app.vault.cachedRead(this.file): the vault's current text of the file
cachedRead(f) == vault[f]

-----------------------------------------------------------------------------
(* Inputs.                                                                 *)

\* The one list file of the vault; a source is named by its file's basename.
FileNames == { <<"X">> }

\* The pieces template bodies are built from: literal characters, the
\* opening marker, and whole placeholders naming the list file (X) and a
\* name no file has (U).
Segments ==
    { <<"a">>, <<"$">>, <<"}">>, <<"$", "{">>,
      <<"$", "{", "X", "}">>, <<"$", "{", "U", "}">> }

RECURSIVE Bodies(_)
Bodies(n) ==
    IF n = 0 THEN { <<>> }
    ELSE { b \o sg : b \in Bodies(n - 1), sg \in Segments }

Templates == UNION { Bodies(n) : n \in 0..MaxSegs }

\* Texts of the list file while templates are expanded: without a non-blank
\* line, with one line, with two.
VaultTexts ==
    { <<>>,
      <<" ", "\n">>,
      <<"a">>,
      <<"a", "\n", "b">>,
      <<"*", " ", "a", "\n", "\n", " ", "c", " ">> }

\* Characters of the texts of the single-source specification.
TextChars == { "a", " ", "*", "-", "\n" }

RECURSIVE CharSeqs(_)
CharSeqs(n) ==
    IF n = 0 THEN { <<>> }
    ELSE { t \o <<c>> : t \in CharSeqs(n - 1), c \in TextChars }

CharTexts == UNION { CharSeqs(n) : n \in 0..MaxTextLen }

-----------------------------------------------------------------------------
(* State after the plugin has loaded: no command has run yet.              *)

GenIdle ==
    /\ sources = {}
    /\ pc = "idle"
    /\ output = <<>>
    /\ lastVariable = 0
    /\ nextVariable = 0
    /\ varName = <<>>
    /\ log = <<>>
    /\ fault = "none"
    /\ picks = <<>>

PickIdle ==
    /\ pickPc = "idle"
    /\ pickFile = <<>>
    /\ pickStrip = TRUE
    /\ picked = Value(<<>>)

PreviewIdle ==
    /\ modal = "closed"
    /\ gens = <<>>
    /\ nameEl = <<>>
    /\ submitted = <<>>

\* Template expansion: any template body, the list folder with or without
\* the list file, any of the vault texts.
Init ==
    /\ template \in Templates
    /\ files \in SUBSET FileNames
    /\ vault \in [files -> VaultTexts]
    /\ lastRead = [f \in files |-> <<>>]
    /\ stripListSymbols = TRUE
    /\ GenIdle
    /\ PickIdle
    /\ PreviewIdle

\* Single-source pick: any text of the list file, either setting.
InitPick ==
    /\ template = <<>>
    /\ files = FileNames
    /\ vault \in [files -> CharTexts]
    /\ lastRead = [f \in files |-> <<>>]
    /\ stripListSymbols \in BOOLEAN
    /\ GenIdle
    /\ PickIdle
    /\ PreviewIdle

-----------------------------------------------------------------------------
(* RandomPickTemplate.generate and its callers.                            *)

\* RandomPickerPlugin.getRandomSources: one RandomSource per file of the
\* list folder, keyed by basename
getRandomSources == files

\* insertRandomPickFromSource, or the preview modal's onOpen / Regenerate:
\* generate is called and runs up to its loop.
Generate ==
    /\ pc \in {"idle", "done", "rejected"}
    /\ sources' = getRandomSources
    /\ pc' = "scan"
    /\ output' = <<>>
    /\ lastVariable' = 0
    /\ nextVariable' = 0
    /\ varName' = <<>>
    /\ log' = <<>>
    /\ fault' = "none"
    /\ picks' = <<>>
    /\ UNCHANGED <<template, files, vault, lastRead>>
    /\ UNCHANGED pickVars
    /\ UNCHANGED previewVars

\* Mutant of Resolved: the pick is not drawn, the loop goes on at once.
ResolvedNoPick(vn) ==
    /\ pc' = "scan"
    /\ log' = Append(log, vn)

\* Lines 210-213 for a name the catalog has: getRandomPick(true) is called
\* and generate suspends at the await.
Resolved(vn) ==
    /\ pc' = "await"
    /\ UNCHANGED log

\* Mutant of Unresolved: an unknown name ends the expansion.
UnresolvedStops(vn) ==
    /\ pc' = "done"
    /\ log' = Append(log, vn)

\* Lines 210-213 for a name the catalog does not have: the if is skipped,
\* the name is logged and the loop goes on.
Unresolved(vn) ==
    /\ pc' = "scan"
    /\ log' = Append(log, vn)

\* Mutant of Scan: the literal runs are sliced from lastVariable, not from
\* lastVariable + 1, so the closing brace of the placeholder before the run
\* is copied.
ScanCopiesBrace ==
    /\ pc = "scan"
    /\ Len(log) < MaxLog
    /\ LET nv == indexOf(template, <<"$", "{">>, lastVariable)
       IN  IF nv = -1
           THEN /\ output' = output \o sliceFrom(template, lastVariable)
                /\ nextVariable' = nv
                /\ pc' = "done"
                /\ UNCHANGED <<lastVariable, varName, log>>
           ELSE LET lv == indexOf(template, <<"}">>, nv)
                    vn == slice(template, nv + 2, lv)
                IN  /\ output' = output \o slice(template, lastVariable, nv)
                    /\ nextVariable' = nv
                    /\ lastVariable' = lv
                    /\ varName' = vn
                    /\ IF vn \in sources THEN Resolved(vn) ELSE Unresolved(vn)
    /\ UNCHANGED <<template, files, vault, sources, fault>>
    /\ UNCHANGED histVars
    /\ UNCHANGED pickVars
    /\ UNCHANGED previewVars

\* One pass of the loop body, from the search for the next marker to the
\* break, to the await of getRandomPick, or to the end of the body for a
\* name the catalog does not have.
Scan ==
    /\ pc = "scan"
    /\ Len(log) < MaxLog
    /\ LET nv == indexOf(template, <<"$", "{">>, lastVariable)
       IN  IF nv = -1
           THEN /\ output' = output \o sliceFrom(template, lastVariable + 1)
                /\ nextVariable' = nv
                /\ pc' = "done"
                /\ UNCHANGED <<lastVariable, varName, log>>
           ELSE LET lv == indexOf(template, <<"}">>, nv)
                    vn == slice(template, nv + 2, lv)
                IN  /\ output' = output \o slice(template, lastVariable + 1, nv)
                    /\ nextVariable' = nv
                    /\ lastVariable' = lv
                    /\ varName' = vn
                    /\ IF vn \in sources THEN Resolved(vn) ELSE Unresolved(vn)
    /\ UNCHANGED <<template, files, vault, sources, fault>>
    /\ UNCHANGED histVars
    /\ UNCHANGED pickVars
    /\ UNCHANGED previewVars

\* The awaited getRandomPick(true) settles: the file is read, a line is
\* drawn, and generate resumes; it appends the pick and logs the name, or
\* is rejected with what the pick threw.
PickResolve ==
    /\ pc = "await"
    /\ LET text == cachedRead(varName)
       IN  /\ lastRead' = [lastRead EXCEPT ![varName] = <<text>>]
           /\ \E r \in pickOutcomes(text, TRUE) :
                    IF r.fault = "none"
                    THEN /\ output' = output \o r.value
                         /\ log' = Append(log, varName)
                         /\ picks' = Append(picks, [at |-> nextVariable, outAt |-> Len(output),
                                                   text |-> text, value |-> r.value])
                         /\ pc' = "scan"
                         /\ UNCHANGED fault
                    ELSE /\ fault' = r.fault
                         /\ pc' = "rejected"
                         /\ UNCHANGED <<output, log, picks>>
    /\ UNCHANGED <<template, files, vault, sources, lastVariable, nextVariable, varName>>
    /\ UNCHANGED pickVars
    /\ UNCHANGED previewVars

\* The user edits a list file.
EditFile ==
    /\ \E f \in files, t \in VaultTexts :
         /\ t /= vault[f]
         /\ vault' = [vault EXCEPT ![f] = t]
    /\ UNCHANGED <<template, files, sources, lastRead>>
    /\ UNCHANGED genVars
    /\ UNCHANGED picks
    /\ UNCHANGED pickVars
    /\ UNCHANGED previewVars

-----------------------------------------------------------------------------
(* The single-source pick command (insertRandomPickFromSource of the       *)
(* earlier revision).                                                      *)

\* The source is chosen: getRandomPick(this.settings.stripListSymbols) is called.
InsertRandomPick ==
    /\ pickPc \in {"idle", "done", "rejected"}
    /\ \E f \in files : pickFile' = f
    /\ pickStrip' = stripListSymbols
    /\ pickPc' = "reading"
    /\ UNCHANGED <<template, files, vault, sources, stripListSymbols, picked>>
    /\ UNCHANGED genVars
    /\ UNCHANGED histVars
    /\ UNCHANGED previewVars

\* The read settles and the then-callback draws the line.
PickSettle ==
    /\ pickPc = "reading"
    /\ LET text == cachedRead(pickFile)
       IN  /\ lastRead' = [lastRead EXCEPT ![pickFile] = <<text>>]
           /\ \E r \in pickOutcomes(text, pickStrip) :
                    /\ picked' = r
                    /\ pickPc' = IF r.fault = "none" THEN "done" ELSE "rejected"
    /\ UNCHANGED <<template, files, vault, sources, stripListSymbols, pickFile, pickStrip, picks>>
    /\ UNCHANGED genVars
    /\ UNCHANGED previewVars

\* The "Strip List Symbols" toggle of the settings tab.
ToggleStrip ==
    /\ stripListSymbols' = ~stripListSymbols
    /\ UNCHANGED <<template, files, vault, sources, pickPc, pickFile, pickStrip, picked>>
    /\ UNCHANGED genVars
    /\ UNCHANGED histVars
    /\ UNCHANGED previewVars

-----------------------------------------------------------------------------
(* The preview modal (RandomPickPreviewModal.onOpen): every generate call  *)
(* it starts runs on its own locals, and each writes nameEl when it        *)
(* returns.                                                                *)

\* Template bodies of the preview: literal text and whole placeholders.
PreviewSegments == { <<"a">>, <<"$", "{", "X", "}">>, <<"$", "{", "U", "}">> }

RECURSIVE PreviewBodies(_)
PreviewBodies(n) ==
    IF n = 0 THEN { <<>> }
    ELSE { b \o sg : b \in PreviewBodies(n - 1), sg \in PreviewSegments }

PreviewTemplates == UNION { PreviewBodies(n) : n \in 0..MaxSegs }

\* generate's locals at the head of its loop
genStart ==
    [pc |-> "scan", output |-> <<>>, lastVariable |-> 0, nextVariable |-> 0,
     varName |-> <<>>]

\* One pass of generate's loop body on the locals g, as in Scan.
pass(body, srcs, g) ==
    LET nv == indexOf(body, <<"$", "{">>, g.lastVariable)
    IN  IF nv = -1
        THEN [g EXCEPT !.output = g.output \o sliceFrom(body, g.lastVariable + 1),
                       !.nextVariable = nv,
                       !.pc = "done"]
        ELSE LET lv == indexOf(body, <<"}">>, nv)
                 vn == slice(body, nv + 2, lv)
             IN  [g EXCEPT !.output = g.output \o slice(body, g.lastVariable + 1, nv),
                           !.nextVariable = nv,
                           !.lastVariable = lv,
                           !.varName = vn,
                           !.pc = IF vn \in srcs THEN "await" ELSE "scan"]

\* generate runs without a break from where it is to its next await or to
\* its return; at most fuel passes are followed.
RECURSIVE runLoop(_, _, _, _)
runLoop(body, srcs, g, fuel) ==
    IF g.pc /= "scan" \/ fuel = 0 THEN g
    ELSE runLoop(body, srcs, pass(body, srcs, g), fuel - 1)

run(body, srcs, g) == runLoop(body, srcs, g, Len(body) + 1)

\* .then((text) => nameEl.setText(text)): runs once the call has returned
setText(g) == IF g.pc = "done" THEN g.output ELSE nameEl

\* Preview: a well-formed template body, the list folder with or without
\* the list file, any of the vault texts.
InitPreview ==
    /\ template \in PreviewTemplates
    /\ files \in SUBSET FileNames
    /\ vault \in [files -> VaultTexts]
    /\ lastRead = [f \in files |-> <<>>]
    /\ stripListSymbols = TRUE
    /\ GenIdle
    /\ PickIdle
    /\ PreviewIdle

\* showPreviewModal and onOpen: the catalog is built, the first generate
\* call is started and runs to its first await or to its return.
OpenPreview ==
    /\ modal = "closed"
    /\ gens = <<>>
    /\ modal' = "open"
    /\ sources' = getRandomSources
    /\ LET g == run(template, getRandomSources, genStart)
       IN  /\ gens' = <<g>>
           /\ nameEl' = setText(g)
    /\ UNCHANGED <<template, files, vault, submitted>>
    /\ UNCHANGED genVars
    /\ UNCHANGED histVars
    /\ UNCHANGED pickVars

\* A click on Regenerate: another generate call is started on the same
\* catalog, whatever the earlier calls are doing.
Regenerate ==
    /\ modal = "open"
    /\ Len(gens) < MaxGens
    /\ LET g == run(template, sources, genStart)
       IN  /\ gens' = Append(gens, g)
           /\ nameEl' = setText(g)
    /\ UNCHANGED <<template, files, vault, sources, modal, submitted>>
    /\ UNCHANGED genVars
    /\ UNCHANGED histVars
    /\ UNCHANGED pickVars

\* The read one of the calls awaits settles, whichever call that is: the
\* pick is appended and the call runs on to its next await or returns and
\* writes nameEl, or it is rejected with what the pick threw.
ReadSettles ==
    /\ \E i \in 1..Len(gens) :
         /\ gens[i].pc = "await"
         /\ LET text == cachedRead(gens[i].varName)
            IN  /\ lastRead' = [lastRead EXCEPT ![gens[i].varName] = <<text>>]
                /\ \E r \in pickOutcomes(text, TRUE) :
                     IF r.fault = "none"
                     THEN LET g == run(template, sources,
                                       [gens[i] EXCEPT !.output = gens[i].output \o r.value,
                                                       !.pc = "scan"])
                          IN  /\ gens' = [gens EXCEPT ![i] = g]
                              /\ nameEl' = setText(g)
                     ELSE /\ gens' = [gens EXCEPT ![i].pc = "rejected"]
                          /\ UNCHANGED nameEl
    /\ UNCHANGED <<template, files, vault, sources, modal, submitted, picks>>
    /\ UNCHANGED genVars
    /\ UNCHANGED pickVars

\* A click on Insert: the modal is closed and onSubmit gets nameEl's text.
Insert ==
    /\ modal = "open"
    /\ modal' = "submitted"
    /\ submitted' = Append(submitted, nameEl)
    /\ UNCHANGED <<template, files, vault, sources, gens, nameEl>>
    /\ UNCHANGED genVars
    /\ UNCHANGED histVars
    /\ UNCHANGED pickVars

-----------------------------------------------------------------------------
Next == Generate \/ Scan \/ PickResolve \/ EditFile

Spec == Init /\ [][Next]_vars

NextPick == InsertRandomPick \/ PickSettle \/ ToggleStrip

SpecPick == InitPick /\ [][NextPick]_vars

NextPreview == OpenPreview \/ Regenerate \/ ReadSettles \/ Insert

SpecPreview == InitPreview /\ [][NextPreview]_vars

-----------------------------------------------------------------------------
(* What the properties speak of, stated on the template body and the file  *)
(* text themselves.                                                        *)

\* the 0-based positions where a marker "${" starts
Markers(body) ==
    { p \in 0..(Len(body) - 2) : body[p + 1] = "$" /\ body[p + 2] = "{" }

\* the positions of the closing braces after the marker at p
Closings(body, p) == { q \in (p + 2)..(Len(body) - 1) : body[q + 1] = "}" }

Least(S) == CHOOSE x \in S : \A y \in S : x <= y

\* every marker has a later closing brace
WellFormed(body) == \A p \in Markers(body) : Closings(body, p) /= {}

\* The placeholder tokens of the body from position from on, left to right:
\* a token runs from its marker to the next closing brace, the search for
\* the next token starts behind that brace, and it ends at a marker that
\* has no closing brace.
RECURSIVE Tokens(_, _)
Tokens(body, from) ==
    LET ms == { p \in Markers(body) : p >= from }
    IN  IF ms = {} THEN <<>>
        ELSE LET p == Least(ms)
             IN  IF Closings(body, p) = {} THEN <<>>
                 ELSE LET q == Least(Closings(body, p))
                      IN  <<[at |-> p, close |-> q, name |-> SubSeq(body, p + 3, q)]>>
                              \o Tokens(body, q + 1)

\* the tokens whose name the catalog has
Resolvable(body, srcs) ==
    SelectSeq(Tokens(body, 0), LAMBDA tk : tk.name \in srcs)

\* The body from position from on with every token replaced: a token the
\* catalog has by the next value of vals, any other token by nothing.
RECURSIVE Expand(_, _, _, _)
Expand(body, from, srcs, vals) ==
    LET ms == { p \in Markers(body) : p >= from }
    IN  IF ms = {} \/ Closings(body, Least(ms)) = {}
        THEN SubSeq(body, from + 1, Len(body))
        ELSE LET p == Least(ms)
                 q == Least(Closings(body, p))
                 known == SubSeq(body, p + 3, q) \in srcs /\ vals /= <<>>
             IN  SubSeq(body, from + 1, p)
                     \o (IF known THEN Head(vals) ELSE <<>>)
                     \o Expand(body, q + 1, srcs, IF known THEN Tail(vals) ELSE vals)

\* the lines of a text: its pieces between line feeds
RECURSIVE Lines(_)
Lines(text) ==
    IF \A k \in 1..Len(text) : text[k] /= "\n" THEN { text }
    ELSE LET n == Least({ k \in 1..Len(text) : text[k] = "\n" })
         IN  { SubSeq(text, 1, n - 1) } \cup Lines(SubSeq(text, n + 1, Len(text)))

Blank(l) == \A k \in 1..Len(l) : l[k] \in WhiteSpace

\* a non-blank line without its leading and trailing white space
Trimmed(l) ==
    LET ks == { k \in 1..Len(l) : l[k] \notin WhiteSpace }
    IN  SubSeq(l, Least(ks), CHOOSE k \in ks : \A j \in ks : j <= k)

HasBullet(t) == Len(t) >= 2 /\ t[1] \in {"*", "-"} /\ t[2] = " "

\* what a pick of the line l is to return
Derived(l, strip) ==
    IF strip /\ HasBullet(Trimmed(l))
    THEN SubSeq(Trimmed(l), 3, Len(Trimmed(l)))
    ELSE Trimmed(l)

\* the values a pick from the text may return
LineValues(text, strip) == { Derived(l, strip) : l \in { l \in Lines(text) : ~Blank(l) } }

-----------------------------------------------------------------------------
(* Properties.                                                             *)

\* C1: when a "${" marker has no "}" after it, generate stops scanning at
\* once and returns the output accumulated so far without a fault: once the
\* search for the closing brace has failed (lastVariable = -1) the call has
\* returned.
C1_StopsAtUnterminatedMarker ==
    (pc /= "idle" /\ lastVariable = -1) => (pc = "done" /\ fault = "none")

\* C2: for a template body without any "${", generate returns the body
\* unchanged, character for character, and emits no diagnostics.
C2_PlainBodyUnchanged ==
    (pc = "done" /\ Markers(template) = {}) => (output = template /\ log = <<>>)

\* C3: for a well-formed body whose placeholder names all resolve to sources
\* with exactly one non-blank line, generate returns the body with each
\* ${name} token replaced by that source's line and every other character
\* copied verbatim in its original order.
C3_SingleLineExpansion ==
    ( /\ pc = "done"
      /\ WellFormed(template)
      /\ Tokens(template, 0) /= <<>>
      /\ \A k \in 1..Len(Tokens(template, 0)) : Tokens(template, 0)[k].name \in sources
      /\ \A k \in 1..Len(picks) : Cardinality(LineValues(picks[k].text, TRUE)) = 1 )
    => /\ Len(picks) = Len(Tokens(template, 0))
       /\ output = Expand(template, 0, sources,
                          [k \in 1..Len(picks) |->
                              CHOOSE v \in LineValues(picks[k].text, TRUE) : TRUE])

\* the values of the picks drawn for markers behind position p, in order
ValuesAfter(p) ==
    LET later == SelectSeq(picks, LAMBDA pk : pk.at > p)
    IN  [i \in 1..Len(later) |-> later[i].value]

IsSuffix(t, s) ==
    Len(t) <= Len(s) /\ SubSeq(s, Len(s) - Len(t) + 1, Len(s)) = t

\* C4, each time a placeholder is processed: when the pass of the loop
\* meets a placeholder whose name is not a key of the catalog, it appends
\* only literal text that precedes the marker and nothing for the
\* placeholder, logs the name once, raises no fault and goes on scanning
\* behind the closing brace.
C4_Step ==
    (pc = "scan" /\ genVars' /= genVars) =>
        LET ms == { p \in Markers(template) : p >= lastVariable }
        IN  (ms /= {} /\ Closings(template, Least(ms)) /= {}) =>
                LET p == Least(ms)
                    q == Least(Closings(template, p))
                    name == SubSeq(template, p + 3, q)
                IN  name \notin sources =>
                        /\ \E a \in 0..p : output' = output \o SubSeq(template, a + 1, p)
                        /\ log' = Append(log, name)
                        /\ pc' = "scan"
                        /\ lastVariable' = q
                        /\ fault' = "none"

\* C4, at the return: every placeholder of the body was processed and
\* logged, and the output ends with the expansion of all that follows an
\* unknown placeholder, the later placeholders replaced by their picks.
C4_AtReturn ==
    pc = "done" =>
        LET tks == Tokens(template, 0)
        IN  /\ Len(log) = Len(tks)
            /\ \A k \in 1..Len(tks) :
                  tks[k].name \notin sources =>
                      /\ log[k] = tks[k].name
                      /\ IsSuffix(Expand(template, tks[k].close + 1, sources,
                                         ValuesAfter(tks[k].at)),
                                  output)
                      /\ Len(ValuesAfter(tks[k].at))
                            = Cardinality({ j \in (k + 1)..Len(tks) : tks[j].name \in sources })

\* C4: for a placeholder whose name is not a key of the catalog, generate
\* appends nothing for that placeholder, emits one diagnostic (the
\* console.log line) naming it, and continues scanning, so the literal text
\* and the placeholders that follow it are still expanded.
C4_UnknownPlaceholderSkipped == []C4_AtReturn /\ [][C4_Step]_vars

\* C4 witness: a call has returned whose body has an unknown placeholder
\* followed by a placeholder that was expanded and by literal text.
C4_Witness ==
    /\ pc = "done"
    /\ LET tks == Tokens(template, 0)
       IN  /\ Len(tks) >= 2
           /\ tks[1].name \notin sources
           /\ ValuesAfter(tks[1].at) /= <<>>
           /\ tks[Len(tks)].close + 1 < Len(template)
           /\ output /= <<>>

\* C5: no error escapes generate: also when a placeholder resolves to a
\* source without any non-blank line the call is not rejected.
C5_NoErrorEscapesGenerate ==
    pc /= "rejected" /\ fault = "none"

\* C6: a pick on a source whose text has no non-blank line yields an
\* EmptySourceError, never an undefined-access fault.
C6_EmptySourceError ==
    (pickPc \in {"done", "rejected"} /\ LineValues(lastRead[pickFile][1], pickStrip) = {})
    => (pickPc = "rejected" /\ picked.fault = "EmptySourceError")

\* C7, the values: every pick drawn is the value derived (trim, then bullet
\* strip) from a non-blank line of the text read.
C7_FromNonBlankLine ==
    \A k \in 1..Len(picks) : picks[k].value \in LineValues(picks[k].text, TRUE)

\* C7, no starvation: while a pick from a text with non-blank lines is
\* awaited, each of its line values is one of the outcomes the pick can
\* settle with.
C7_EveryLinePossible ==
    pc = "await" =>
        \A v \in LineValues(vault[varName], TRUE) :
            Value(v) \in pickOutcomes(cachedRead(varName), TRUE)

\* C7, the example: the template ${X} with X's lines a and b returns exactly
\* "a" or exactly "b".
C7_Example ==
    ( /\ pc = "done"
      /\ template = <<"$", "{", "X", "}">>
      /\ Len(picks) = 1
      /\ picks[1].text = <<"a", "\n", "b">> )
    => output \in { <<"a">>, <<"b">> }

\* C7: for a source with at least one non-blank line, every pick returns the
\* value derived from one of the source's non-blank lines and nothing else,
\* and every non-blank line is a possible outcome; the template ${X} with
\* X's lines a and b returns exactly "a" or exactly "b".
C7_PickFromNonBlankLines ==
    C7_FromNonBlankLine /\ C7_EveryLinePossible /\ C7_Example

\* C7 witness: the template ${X} has returned "b", the second of the two
\* lines of X.
C7_Witness ==
    /\ pc = "done"
    /\ template = <<"$", "{", "X", "}">>
    /\ Len(picks) = 1
    /\ picks[1].text = <<"a", "\n", "b">>
    /\ output = <<"b">>

\* C8: a pick with stripMarkers true removes exactly the two-character
\* prefix when the trimmed chosen line begins with "* " or "- "; with
\* stripMarkers false, or without such a prefix, it returns the trimmed line
\* unchanged.  The value returned is that of one of the non-blank lines of
\* the text read.
C8_MarkerStrip ==
    pickPc = "done" =>
        /\ picked.fault = "none"
        /\ picked.value \in LineValues(lastRead[pickFile][1], pickStrip)

\* C8 witness: a pick with stripMarkers true from the text "- a" has returned "a".
C8_Witness ==
    /\ pickPc = "done"
    /\ pickStrip
    /\ lastRead[pickFile][1] = <<"-", " ", "a">>
    /\ picked.value = <<"a">>

\* C9, each step: while a pick is awaited nothing of the scan moves, and the
\* step that ends the await appends exactly one pick, the one of the
\* placeholder at nextVariable, to the end of the output (or rejects the
\* call); a pass of the loop draws no pick, keeps what was output, and
\* suspends at a placeholder the catalog has.
C9_Step ==
    /\ (pc = "await" /\ genVars' /= genVars) =>
          \/ pc' = "rejected" /\ picks' = picks /\ output' = output
          \/ /\ pc' = "scan"
             /\ Len(picks') = Len(picks) + 1
             /\ SubSeq(picks', 1, Len(picks)) = picks
             /\ picks'[Len(picks')].at = nextVariable
             /\ picks'[Len(picks')].outAt = Len(output)
             /\ output' = output \o picks'[Len(picks')].value
             /\ lastVariable' = lastVariable
             /\ nextVariable' = nextVariable
    /\ (pc = "scan" /\ genVars' /= genVars) =>
          /\ picks' = picks
          /\ SubSeq(output', 1, Len(output)) = output
          /\ LET ms == { p \in Markers(template) : p >= lastVariable }
             IN  (ms /= {} /\ Closings(template, Least(ms)) /= {}
                    /\ SubSeq(template, Least(ms) + 3, Least(Closings(template, Least(ms)))) \in sources)
                 => (pc' = "await" /\ nextVariable' = Least(ms))

\* C9, the output: the picks drawn stand in the output one behind the other
\* in the order they were drawn.
C9_InOutput ==
    /\ \A k \in 1..Len(picks) :
          SubSeq(output, picks[k].outAt + 1, picks[k].outAt + Len(picks[k].value))
              = picks[k].value
    /\ \A k \in 1..(Len(picks) - 1) :
          picks[k].outAt + Len(picks[k].value) <= picks[k + 1].outAt

\* C9, at the return: exactly one pick was drawn per placeholder occurrence
\* the catalog has, in the order of the placeholders in the template.
C9_AtReturn ==
    pc = "done" =>
        LET rs == Resolvable(template, sources)
        IN  /\ Len(picks) = Len(rs)
            /\ \A k \in 1..Len(rs) : picks[k].at = rs[k].at

\* C9: within one generate call the source reads happen one at a time and
\* in template order: the pick for a placeholder completes and is appended
\* before the scan searches for the next placeholder, exactly one pick is
\* drawn per resolvable placeholder occurrence, and the picks appear in the
\* output in the order of their placeholders.
C9_OnePickPerPlaceholderInOrder ==
    [](C9_InOutput /\ C9_AtReturn) /\ [][C9_Step]_vars

\* C9 witness: the template ${X}${X} has returned with two picks that differ.
C9_Witness ==
    /\ pc = "done"
    /\ template = <<"$", "{", "X", "}", "$", "{", "X", "}">>
    /\ Len(picks) = 2
    /\ picks[1].value /= picks[2].value

\* C10, each pick: the pick reads the source's text at the time of that
\* pick: the step that ends an await appends a value of a line of the file's current
\* text, never one that only the text of the previous read had, and it
\* appends one whenever the current text has a non-blank line.
C10_Step ==
    (pc = "await" /\ genVars' /= genVars) =>
        LET now == LineValues(vault[varName], TRUE)
            old == IF lastRead[varName] = <<>> THEN {}
                   ELSE LineValues(lastRead[varName][1], TRUE)
        IN  /\ now /= {} => pc' = "scan"
            /\ pc' = "scan" =>
                  /\ \E v \in now : output' = output \o v
                  /\ ~ \E v \in old \ now : output' = output \o v

C11_Step ==
    (pc = "scan" /\ genVars' /= genVars /\ lastVariable > 0) =>
        LET ms == { p \in Markers(template) : p > lastVariable }
            stop == IF ms = {} THEN Len(template) ELSE Least(ms)
        IN  /\ template[lastVariable + 1] = "}"
            /\ output' = output \o SubSeq(template, lastVariable + 2, stop)

\* C11, at the return: behind every placeholder, resolved or unknown, the
\* output goes on with the rest of the body as it stands behind the closing
\* brace, the later placeholders replaced.
C11_AtReturn ==
    pc = "done" =>
        LET tks == Tokens(template, 0)
        IN  \A k \in 1..Len(tks) :
                IsSuffix(Expand(template, tks[k].close + 1, sources,
                                ValuesAfter(tks[k].at)),
                         output)

\* C11: after a placeholder is processed (resolved or unknown), the scan
\* resumes at the position immediately after its closing brace: the literal
\* text from just after that brace up to the next "${" (or to the end of the
\* body) is appended verbatim, no character dropped or duplicated and the
\* brace itself never copied.
C11_ResumesBehindClosingBrace == []C11_AtReturn /\ [][C11_Step]_vars

\* C11 witness: a call has returned whose body has literal text between the
\* closing brace of a resolved placeholder and the next marker.
C11_Witness ==
    /\ pc = "done"
    /\ LET tks == Tokens(template, 0)
       IN  /\ Len(tks) >= 2
           /\ tks[1].name \in sources
           /\ tks[1].close + 1 < tks[2].at
    /\ Len(picks) >= 1

\* C12: in the preview modal, once every generate call started (by onOpen
\* and by the Regenerate clicks) has returned, the text displayed is the
\* result of the call started last: a call started earlier that returns
\* later never overwrites it, so Insert submits the latest result.
C12_LatestGenerationShown ==
    ( /\ modal = "open"
      /\ gens /= <<>>
      /\ \A i \in 1..Len(gens) : gens[i].pc = "done" )
    => nameEl = gens[Len(gens)].output

====
